---- MODULE Spec2Model ----
(***************************************************************************)
(* bot/skills/roll.py: the "hussar roulette" skill.                        *)
(*                                                                         *)
(* Every inbound dice / /roll update is handled by roll(), which runs in   *)
(* a worker thread (@run_async).  The handler looks the player up in the   *)
(* hussars collection, registers them when absent, fires the chat's        *)
(* revolver (_shot, under the module-level barrel_lock) and then narrates  *)
(* and records the outcome.  /gdpr_me and /wipe_hussars delete records.    *)
(*                                                                         *)
(* A handler is a record holding its position (pc) and its locals; the     *)
(* running handlers form a bag, since worker threads have no identity of   *)
(* their own.                                                              *)
(***************************************************************************)
EXTENDS Naturals, Integers, Sequences, FiniteSets, Bags, TLC

VARIABLES
    chat_data,      \* chat -> barrel, for the chats whose chat_data holds "barrel"
    barrel_lock,    \* TRUE while the module-level Lock is held
    db,             \* user id -> hussar document (the hussars collection)
    handlers,       \* bag of running roll() invocations
    pool,           \* idle worker threads of the dispatcher
    quota,          \* updates the transport may still deliver
    members,        \* the <<chat, user>> pairs roll updates come from
    trace,          \* history: chat -> shots_remained of the misses returned since the last hit
    hits,           \* history: chat -> number of _shot calls that returned fate = True
    reloads,        \* history: chat -> number of _reload calls
    faults,         \* errors the transport and the store may still raise
    raised          \* the exception the step just taken raised out of roll(), "none" otherwise

vars ==
    <<chat_data, barrel_lock, db, handlers, pool, quota, members, trace, hits, reloads,
      faults, raised>>

-----------------------------------------------------------------------------
(* Program constants *)

MUTE_MINUTES == 960
NUM_BULLETS == 6

(* Bounds of the model *)

MaxUpdates == 3
PoolSize == 2
CycleExtra == 1
CyclePool == 1
BurstExtra == 1
PairUpdates == 2
FaultyUpdates == 3
MaxFaults == 1

Chats == {"c1", "c2"}
Users == {"u1", "u2"}

\* u1 plays in c1, u2 in c2
Members == {<<"c1", "u1">>, <<"c2", "u2">>}

-----------------------------------------------------------------------------
(* DB: the hussars collection, one document per user id *)

\* the document add() inserts, without its meta and last_shot fields
NewHussar(first_shot) ==
    [shot_counter |-> 0, miss_counter |-> 0, dead_counter |-> 0, total_time_in_club |-> 0,
     first_shot |-> first_shot]

\* Collection.find_one({"_id": user_id}) is not None
DbFind(coll, user_id) == user_id \in DOMAIN coll

\* an insert that replaces the stored document instead of raising
DbAddRaises_Never(coll, user_id) == FALSE

\* insert_one of a document whose _id is already stored raises DuplicateKeyError
DbAddRaises(coll, user_id) == user_id \in DOMAIN coll

DbAdd(coll, user_id, first_shot) ==
    [u \in DOMAIN coll \cup {user_id} |-> IF u = user_id THEN NewHussar(first_shot) ELSE coll[u]]

\* Collection.update_one returns an UpdateResult whatever the filter matched: dead() and
\* miss() raise nothing for an id that is not stored
DbUpdateRaises(coll, user_id) == FALSE

\* update_one matches no document and changes nothing when the id is not stored
DbDead_MissingShot(coll, user_id, mute_min) ==
    IF user_id \in DOMAIN coll
    THEN [coll EXCEPT ![user_id] =
            [@ EXCEPT !.dead_counter = @ + 1,
                      !.total_time_in_club = @ + mute_min * 60]]
    ELSE coll

\* the penalty added in minutes
DbDead_Minutes(coll, user_id, mute_min) ==
    IF user_id \in DOMAIN coll
    THEN [coll EXCEPT ![user_id] =
            [@ EXCEPT !.shot_counter = @ + 1,
                      !.dead_counter = @ + 1,
                      !.total_time_in_club = @ + mute_min]]
    ELSE coll

DbDead(coll, user_id, mute_min) ==
    IF user_id \in DOMAIN coll
    THEN [coll EXCEPT ![user_id] =
            [@ EXCEPT !.shot_counter = @ + 1,
                      !.dead_counter = @ + 1,
                      !.total_time_in_club = @ + mute_min * 60]]
    ELSE coll

DbMiss(coll, user_id) ==
    IF user_id \in DOMAIN coll
    THEN [coll EXCEPT ![user_id] =
            [@ EXCEPT !.shot_counter = @ + 1, !.miss_counter = @ + 1]]
    ELSE coll

\* a delete that leaves the document in place
DbRemove_Keeps(coll, user_id) == coll

DbRemove(coll, user_id) == [u \in DOMAIN coll \ {user_id} |-> coll[u]]

DbRemoveAll(coll) == [u \in {} |-> NewHussar(0)]

-----------------------------------------------------------------------------
(* The revolver *)

\* a cylinder without a bullet
_reload_Blank(lucky_number) == [i \in 1..NUM_BULLETS |-> FALSE]

\* a cylinder one chamber short
_reload_Short(lucky_number) == [i \in 1..(NUM_BULLETS - 1) |-> i = lucky_number + 1]

\* [empty] * NUM_BULLETS with barrel[lucky_number] = bullet (list index 0 is position 1)
_reload(lucky_number) == [i \in 1..NUM_BULLETS |-> i = lucky_number + 1]

LuckyNumbers == 0..(NUM_BULLETS - 1)

get_mute_minutes_OffByOne(shots_remain) == MUTE_MINUTES * (NUM_BULLETS - shots_remain - 1)

get_mute_minutes(shots_remain) == MUTE_MINUTES * (NUM_BULLETS - shots_remain)

\* S has five faces; S[NUM_BULLETS - shots_remain - 1] raises IndexError outside -5..4
MissStringRaises(shots_remain) ==
    LET i == NUM_BULLETS - shots_remain - 1 IN ~(i >= -5 /\ i <= 4)

\* the hours of a hit on the chamber just fired
MissStringHours_ThisShot(shots_remain) == get_mute_minutes(shots_remain) \div 60

\* the hours get_miss_string shows
MissStringHours(shots_remain) == get_mute_minutes(shots_remain - 1) \div 60

\* Lock.acquire() returns only when the lock is not held: one lock for all chats
CanAcquire_NoLock(chat) == TRUE

CanAcquire(chat) == ~barrel_lock

\* barrel is None or len(barrel) == 0
NeedsReload(chat) == chat \notin DOMAIN chat_data \/ Len(chat_data[chat]) = 0

\* if fate: _reload(context)
ReloadsOnHit_Never(fate) == FALSE

ReloadsOnHit(fate) == fate

\* one less than the chambers left
Remaining_OffByOne(barrel) == Len(barrel) - 1

\* shots_remained = len(barrel), read after the pop
Remaining(barrel) == Len(barrel)

\* a store that writes the value under every key
Put_All(f, k, v) == [x \in DOMAIN f \cup {k} |-> v]

Put(f, k, v) == [x \in DOMAIN f \cup {k} |-> IF x = k THEN v ELSE f[x]]

-----------------------------------------------------------------------------
(* Handlers *)

NewHandler(chat, user) ==
    [pc |-> "find", chat |-> chat, user |-> user, barrel |-> <<>>,
     fate |-> FALSE, shots_remained |-> 0]

Running == BagToSet(handlers)

\* datetime.now(): the clock reads the number of updates the transport has delivered
Horizon == MaxUpdates + NUM_BULLETS + CycleExtra + BurstExtra
now == Horizon - quota

Become(h, h2) == (handlers (-) SetToBag({h})) (+) SetToBag({h2})

\* the handler returns or an exception leaves it: its worker becomes idle
Leave(h) == handlers (-) SetToBag({h})

InShot == {"load", "pop", "reload", "release"}

Start(m, p, q, f) ==
    /\ chat_data = [c \in {} |-> <<>>]
    /\ barrel_lock = FALSE
    /\ members = m
    /\ pool = p
    /\ quota = q
    /\ trace = [c \in Chats |-> <<>>]
    /\ hits = [c \in Chats |-> 0]
    /\ reloads = [c \in Chats |-> 0]
    /\ faults = f
    /\ raised = "none"

\* a fresh process: no chat has a barrel, the collection is empty, every worker is idle;
\* the transport and the store answer every call
Init ==
    /\ Start(Members, PoolSize, MaxUpdates, 0)
    /\ db = [u \in {} |-> NewHussar(0)]
    /\ handlers = EmptyBag

\* one player alone in one chat, for long enough to go round the cylinder; the transport
\* and the store answer every call
InitCycle ==
    /\ Start({<<"c1", "u1">>}, CyclePool, NUM_BULLETS + CycleExtra, 0)
    /\ db = [u \in {} |-> NewHussar(0)]
    /\ handlers = EmptyBag

\* NUM_BULLETS rolls of a registered player in a fresh chat, all handed to workers at once;
\* the transport and the store answer every call
InitBurst ==
    /\ Start({<<"c1", "u1">>}, 0, BurstExtra, 0)
    /\ db = [u \in {"u1"} |-> NewHussar(0)]
    /\ handlers = [h \in {NewHandler("c1", "u1")} |-> NUM_BULLETS]

\* the dispatcher hands a dice / /roll update to an idle worker
RollStart(chat, user) ==
    /\ <<chat, user>> \in members
    /\ quota > 0
    /\ pool > 0
    /\ quota' = quota - 1
    /\ pool' = pool - 1
    /\ handlers' = handlers (+) SetToBag({NewHandler(chat, user)})
    /\ UNCHANGED <<chat_data, barrel_lock, db, members, trace, hits, reloads, faults>>
    /\ raised' = "none"

\* _db.find(user_id=user.id) or ...
RollFind(h) ==
    /\ h.pc = "find"
    /\ handlers' = Become(h, [h EXCEPT !.pc = IF DbFind(db, h.user) THEN "acquire" ELSE "add"])
    /\ UNCHANGED <<chat_data, barrel_lock, db, pool, quota, members, trace, hits, reloads, faults>>
    /\ raised' = "none"

\* ... or _db.add(user=user)
RollAdd(h) ==
    /\ h.pc = "add"
    /\ IF DbAddRaises(db, h.user)
       THEN /\ handlers' = Leave(h)
            /\ pool' = pool + 1
            /\ db' = db
            /\ raised' = "DuplicateKeyError"
       ELSE /\ handlers' = Become(h, [h EXCEPT !.pc = "acquire"])
            /\ pool' = pool
            /\ db' = DbAdd(db, h.user, now)
            /\ raised' = "none"
    /\ UNCHANGED <<chat_data, barrel_lock, quota, members, trace, hits, reloads, faults>>

\* barrel_lock.acquire()
ShotAcquire(h) ==
    /\ h.pc = "acquire"
    /\ CanAcquire(h.chat)
    /\ barrel_lock' = TRUE
    /\ handlers' = Become(h, [h EXCEPT !.pc = "load"])
    /\ UNCHANGED <<chat_data, db, pool, quota, members, trace, hits, reloads, faults>>
    /\ raised' = "none"

\* barrel = chat_data.get("barrel"); reload when None or empty
ShotLoad(h) ==
    /\ h.pc = "load"
    /\ IF NeedsReload(h.chat)
       THEN \E lucky_number \in LuckyNumbers :
                /\ chat_data' = Put(chat_data, h.chat, _reload(lucky_number))
                /\ reloads' = [reloads EXCEPT ![h.chat] = @ + 1]
                /\ handlers' = Become(h, [h EXCEPT !.pc = "pop", !.barrel = _reload(lucky_number)])
       ELSE /\ handlers' = Become(h, [h EXCEPT !.pc = "pop", !.barrel = chat_data[h.chat]])
            /\ UNCHANGED <<chat_data, reloads>>
    /\ UNCHANGED <<barrel_lock, db, pool, quota, members, trace, hits, faults>>
    /\ raised' = "none"

\* fate = barrel.pop(); chat_data["barrel"] = barrel; shots_remained = len(barrel).
\* The list is the one ShotLoad read or made, which is never empty (pop() of an
\* empty list would raise IndexError with the lock held).
ShotPop(h) ==
    /\ h.pc = "pop"
    /\ Len(h.barrel) > 0
    /\ LET rest == SubSeq(h.barrel, 1, Len(h.barrel) - 1) IN
        /\ chat_data' = Put(chat_data, h.chat, rest)
        /\ handlers' = Become(h, [h EXCEPT !.pc = "reload", !.barrel = rest,
                                           !.fate = h.barrel[Len(h.barrel)],
                                           !.shots_remained = Remaining(rest)])
    /\ UNCHANGED <<barrel_lock, db, pool, quota, members, trace, hits, reloads, faults>>
    /\ raised' = "none"

\* if fate: _reload(context)
ShotReloadOnHit(h) ==
    /\ h.pc = "reload"
    /\ IF ReloadsOnHit(h.fate)
       THEN \E lucky_number \in LuckyNumbers :
                /\ chat_data' = Put(chat_data, h.chat, _reload(lucky_number))
                /\ reloads' = [reloads EXCEPT ![h.chat] = @ + 1]
       ELSE UNCHANGED <<chat_data, reloads>>
    /\ handlers' = Become(h, [h EXCEPT !.pc = "release"])
    /\ UNCHANGED <<barrel_lock, db, pool, quota, members, trace, hits, faults>>
    /\ raised' = "none"

\* _shot returning with the lock still held
ShotRelease_KeepsLock(h) ==
    /\ h.pc = "release"
    /\ barrel_lock' = barrel_lock
    /\ handlers' = Become(h, [h EXCEPT !.pc = "report", !.barrel = <<>>])
    /\ hits' = [hits EXCEPT ![h.chat] = IF h.fate THEN @ + 1 ELSE @]
    /\ trace' = [trace EXCEPT ![h.chat] = IF h.fate THEN <<>> ELSE Append(@, h.shots_remained)]
    /\ UNCHANGED <<chat_data, db, pool, quota, members, reloads, faults>>
    /\ raised' = "none"

\* barrel_lock.release(); return fate, shots_remained
ShotRelease(h) ==
    /\ h.pc = "release"
    /\ barrel_lock' = FALSE
    /\ handlers' = Become(h, [h EXCEPT !.pc = "report", !.barrel = <<>>])
    /\ hits' = [hits EXCEPT ![h.chat] = IF h.fate THEN @ + 1 ELSE @]
    /\ trace' = [trace EXCEPT ![h.chat] = IF h.fate THEN <<>> ELSE Append(@, h.shots_remained)]
    /\ UNCHANGED <<chat_data, db, pool, quota, members, reloads, faults>>
    /\ raised' = "none"

\* The hit branch: mute_min = get_mute_minutes(shots_remained); send_message(boom);
\* mute_user_for_time(mute_min); _db.dead(user.id, mute_min).  The two transport calls
\* touch nothing the other handlers see, so the branch is one step.  When send_message
\* or mute_user_for_time raises, _db.dead is never reached; when _db.dead raises, the
\* message is out and the mute is set but the record is as it was; otherwise the death
\* is recorded and roll() returns.
RollDead(h) ==
    /\ h.pc = "report"
    /\ h.fate
    /\ \/ /\ faults > 0
          /\ faults' = faults - 1
          /\ db' = db
          /\ raised' \in {"TelegramError", "PyMongoError"}
       \/ /\ faults' = faults
          /\ db' = DbDead(db, h.user, get_mute_minutes(h.shots_remained))
          /\ raised' = IF DbUpdateRaises(db, h.user) THEN "NotFound" ELSE "none"
    /\ handlers' = Leave(h)
    /\ pool' = pool + 1
    /\ UNCHANGED <<chat_data, barrel_lock, quota, members, trace, hits, reloads>>

\* the miss branch with a roll-back: a failed _db.miss puts the chamber back
RollMiss_RollsBack(h) ==
    /\ h.pc = "report"
    /\ ~h.fate
    /\ \/ /\ faults > 0
          /\ faults' = faults - 1
          /\ \/ /\ db' = db
                /\ raised' = "PyMongoError"
                /\ chat_data' = Put(chat_data, h.chat, Append(chat_data[h.chat], FALSE))
             \/ /\ db' = DbMiss(db, h.user)
                /\ raised' = "TelegramError"
                /\ chat_data' = chat_data
       \/ /\ faults' = faults
          /\ db' = DbMiss(db, h.user)
          /\ raised' = "none"
          /\ chat_data' = chat_data
    /\ handlers' = Leave(h)
    /\ pool' = pool + 1
    /\ UNCHANGED <<barrel_lock, quota, members, trace, hits, reloads>>

\* The miss branch: _db.miss(user.id); send_message(get_miss_string(shots_remained)).
\* When _db.miss raises, the record is as it was and nothing is sent; when send_message
\* (or get_miss_string) raises, the miss is already recorded.
RollMiss(h) ==
    /\ h.pc = "report"
    /\ ~h.fate
    /\ \/ /\ faults > 0
          /\ faults' = faults - 1
          /\ \/ db' = db /\ raised' = "PyMongoError"
             \/ db' = DbMiss(db, h.user) /\ raised' = "TelegramError"
       \/ /\ faults' = faults
          /\ db' = DbMiss(db, h.user)
          /\ raised' = IF DbUpdateRaises(db, h.user) THEN "NotFound"
                       ELSE IF MissStringRaises(h.shots_remained) THEN "IndexError"
                       ELSE "none"
    /\ handlers' = Leave(h)
    /\ pool' = pool + 1
    /\ UNCHANGED <<chat_data, barrel_lock, quota, members, trace, hits, reloads>>

\* /gdpr_me: _db.remove(user.id)
SatisfyGDPR(user) ==
    /\ quota > 0
    /\ quota' = quota - 1
    /\ db' = DbRemove(db, user)
    /\ UNCHANGED <<chat_data, barrel_lock, handlers, pool, members, trace, hits, reloads, faults>>
    /\ raised' = "none"

\* /wipe_hussars: _db.remove_all()
WipeHussars ==
    /\ quota > 0
    /\ quota' = quota - 1
    /\ db' = DbRemoveAll(db)
    /\ UNCHANGED <<chat_data, barrel_lock, handlers, pool, members, trace, hits, reloads, faults>>
    /\ raised' = "none"

Next ==
    \/ \E c \in Chats, u \in Users : RollStart(c, u)
    \/ \E h \in Running : RollFind(h)
    \/ \E h \in Running : RollAdd(h)
    \/ \E h \in Running : ShotAcquire(h)
    \/ \E h \in Running : ShotLoad(h)
    \/ \E h \in Running : ShotPop(h)
    \/ \E h \in Running : ShotReloadOnHit(h)
    \/ \E h \in Running : ShotRelease(h)
    \/ \E h \in Running : RollDead(h)
    \/ \E h \in Running : RollMiss(h)
    \/ \E u \in Users : SatisfyGDPR(u)
    \/ WipeHussars

Spec == Init /\ [][Next]_vars

SpecCycle == InitCycle /\ [][Next]_vars

SpecBurst == InitBurst /\ [][Next]_vars

\* a fresh process and a pair of updates
InitPair ==
    /\ Start(Members, PoolSize, PairUpdates, 0)
    /\ db = [u \in {} |-> NewHussar(0)]
    /\ handlers = EmptyBag

SpecPair == InitPair /\ [][Next]_vars

\* one player alone in one chat while the transport or the store fails some of the calls
InitFaulty ==
    /\ Start({<<"c1", "u1">>}, CyclePool, FaultyUpdates, MaxFaults)
    /\ db = [u \in {} |-> NewHussar(0)]
    /\ handlers = EmptyBag

SpecFaulty == InitFaulty /\ [][Next]_vars

\* The worker threads are scheduled fairly: a handler that can take its next step takes
\* it, and the lock, whenever it keeps coming free, goes to a handler that waits for it.
Fairness ==
    /\ WF_vars(\E h \in Running : RollFind(h))
    /\ WF_vars(\E h \in Running : RollAdd(h))
    /\ SF_vars(\E h \in Running : ShotAcquire(h))
    /\ WF_vars(\E h \in Running : ShotLoad(h))
    /\ WF_vars(\E h \in Running : ShotPop(h))
    /\ WF_vars(\E h \in Running : ShotReloadOnHit(h))
    /\ WF_vars(\E h \in Running : ShotRelease(h))
    /\ WF_vars(\E h \in Running : RollDead(h))
    /\ WF_vars(\E h \in Running : RollMiss(h))

SpecFair == InitPair /\ [][Next]_vars /\ Fairness

-----------------------------------------------------------------------------
(* Vocabulary of the properties *)

\* handlers between barrel_lock.acquire() and barrel_lock.release()
InShotCount ==
    BagCardinality([h \in {x \in Running : x.pc \in InShot} |-> handlers[h]])

\* number of loaded chambers of a barrel
Loaded(barrel) == Cardinality({i \in 1..Len(barrel) : barrel[i]})

\* a full cylinder with exactly one bullet, at a list index in [0, NUM_BULLETS)
Fresh(barrel) ==
    /\ Len(barrel) = 6
    /\ \E k \in 0..5 : \A i \in 1..6 : barrel[i] = (i = k + 1)

\* some _shot call of the chat has returned
HasFired(chat) == hits[chat] >= 1 \/ trace[chat] # <<>>

\* the rolls of InitBurst, and no later update, have all returned from _shot
BurstFired == quota = BurstExtra /\ \A h \in Running : h.pc = "report"

\* the fire that returned last in the chat was a hit
LastWasHit(chat) == hits[chat] >= 1 /\ trace[chat] = <<>>

-----------------------------------------------------------------------------
(* C1: fires in one chat are strictly sequential.  At most one handler is   *)
(* inside _shot; the barrel a handler read is still the chat's barrel when  *)
(* it pops and when it decides to reload (nobody popped or reloaded in      *)
(* between, so no pop is lost and no loaded chamber is popped twice); and   *)
(* whenever the lock is free each chat with a barrel has had exactly one    *)
(* reload per hit besides the first, and the misses since the last hit      *)
(* reported 5, 4, ... one chamber each.                                     *)
C1_StrictlySequential ==
    /\ InShotCount <= 1
    /\ \A h \in Running :
        /\ h.pc = "pop" =>
              h.chat \in DOMAIN chat_data /\ chat_data[h.chat] = h.barrel
        /\ h.pc = "reload" =>
              chat_data[h.chat] = h.barrel /\ h.shots_remained = Len(h.barrel)
    /\ ~barrel_lock =>
          \A c \in DOMAIN chat_data :
            /\ reloads[c] = hits[c] + 1
            /\ Len(chat_data[c]) + Len(trace[c]) = 6
            /\ \A i \in 1..Len(trace[c]) : trace[c][i] = 6 - i

\* a handler is inside _shot, after its pop, while another roll in the same chat waits
\* for the lock and an earlier fire of that chat has already returned
C1_Witness ==
    \E h1 \in Running, h2 \in Running :
        /\ h1.pc = "reload" /\ h2.pc = "acquire"
        /\ h1.chat = h2.chat
        /\ HasFired(h1.chat)

(* C2: while a fire of chat A is inside its critical section, a fire of a   *)
(* different chat B can take the lock.                                      *)
C2_ChatsIndependent ==
    \A h1 \in Running, h2 \in Running :
        (h1.pc \in InShot /\ h2.pc = "acquire" /\ h2.chat # h1.chat) => CanAcquire(h2.chat)

(* C3: whenever no fire is inside the critical section, every chat with a   *)
(* barrel holds at least one chamber and exactly one loaded chamber; a miss *)
(* never empties the cylinder and _shot never finds a stored empty barrel.  *)
C3_OneLoadedChamber ==
    /\ ~barrel_lock =>
          \A c \in DOMAIN chat_data :
              Len(chat_data[c]) >= 1 /\ Loaded(chat_data[c]) = 1
    /\ \A h \in Running :
        /\ (h.pc = "load" /\ h.chat \in DOMAIN chat_data) => Len(chat_data[h.chat]) > 0
        /\ (h.pc \in {"reload", "release", "report"} /\ ~h.fate) => h.shots_remained >= 1

\* five misses have left only the loaded chamber
C3_Witness == ~barrel_lock /\ "c1" \in DOMAIN chat_data /\ chat_data["c1"] = <<TRUE>>

(* C4: every step that runs _reload leaves the chat with a barrel of six    *)
(* chambers, exactly one of them loaded, at a list index in 0..5.           *)
C4_ReloadIsFresh ==
    [][\A c \in Chats : reloads'[c] # reloads[c] =>
            (c \in DOMAIN chat_data' /\ Fresh(chat_data'[c]))]_vars

\* a hit has just reloaded a chat that had been loaded before
C4_Witness ==
    \E h \in Running : h.pc = "release" /\ h.fate /\ reloads[h.chat] >= 2

(* C5: a handler that popped the loaded chamber still holds the lock when   *)
(* the chat has its new cylinder; after a hit the chat's barrel is a fresh  *)
(* cylinder until the next fire, and that fire reports five chambers left.  *)
C5_ReloadBeforeReturn ==
    /\ \A h \in Running :
        /\ (h.pc = "release" /\ h.fate) => (barrel_lock /\ Fresh(chat_data[h.chat]))
        /\ (h.pc \in {"reload", "release"} /\ LastWasHit(h.chat)) => h.shots_remained = 5
    /\ ~barrel_lock =>
          \A c \in DOMAIN chat_data : LastWasHit(c) => Fresh(chat_data[c])

\* the fire that follows a hit in the same chat has popped
C5_Witness ==
    \E h \in Running : h.pc = "reload" /\ LastWasHit(h.chat)

(* C6 as claimed: five consecutive misses report 4, 3, 2, 1, 0.             *)
C6_AsClaimed ==
    \A c \in Chats : Len(trace[c]) = 5 => trace[c] = <<4, 3, 2, 1, 0>>

(* C6: five consecutive misses in one chat report 5, 4, 3, 2, 1 and leave   *)
(* only the loaded chamber, so the sixth fire is a hit, reporting 0.        *)
C6_FiveMisses ==
    \A c \in Chats : Len(trace[c]) = 5 =>
        /\ trace[c] = <<5, 4, 3, 2, 1>>
        /\ ~barrel_lock => chat_data[c] = <<TRUE>>
        /\ \A h \in Running :
              (h.chat = c /\ h.pc \in {"reload", "release"}) => (h.fate /\ h.shots_remained = 0)

\* the sixth fire after five misses is about to return
C6_Witness ==
    \E h \in Running : h.pc = "release" /\ Len(trace[h.chat]) = 5 /\ h.fate

(* C7 as claimed: the six simultaneous fires of a chat give exactly one hit *)
C7_AsClaimed == BurstFired => hits["c1"] = 1

(* C7: six simultaneous fires in a fresh chat give at least one hit, and    *)
(* exactly one hit and five misses when the loaded chamber is the last one  *)
(* popped, so that the six draw from one cylinder.                          *)
C7_AtLeastOneHit ==
    /\ BurstFired => hits["c1"] >= 1
    /\ \A h \in Running :
          (/\ quota = BurstExtra
           /\ h.pc = "release" /\ h.shots_remained = 0
           /\ \A h2 \in Running : h2.pc \in {"release", "report"}) =>
              (h.fate /\ hits["c1"] = 0 /\ trace["c1"] = <<5, 4, 3, 2, 1>>)

\* the six rolls of the burst, and no other update, have fired: one hit, a fresh cylinder
C7_Witness ==
    BurstFired /\ hits["c1"] = 1 /\ ~barrel_lock /\ Len(chat_data["c1"]) = 6

(* C8: the penalty of every hit is 960 * (6 - r) minutes for the r the fire *)
(* returned: 960 for r = 5, 5760 for r = 0, never outside 960..5760, and    *)
(* never smaller for a smaller r.                                           *)
C8_Penalty ==
    /\ \A h \in Running :
          (h.pc = "report" /\ h.fate) =>
              LET m == get_mute_minutes(h.shots_remained) IN
                  /\ m = 960 * (6 - h.shots_remained)
                  /\ m >= 960 /\ m <= 5760
                  /\ h.shots_remained = 5 => m = 960
                  /\ h.shots_remained = 0 => m = 5760
                  /\ \A r \in 0..5 :
                        r <= h.shots_remained => get_mute_minutes(r) >= m

\* a hit on the last chamber is about to be punished
C8_Witness ==
    \E h \in Running : h.pc = "report" /\ h.fate /\ h.shots_remained = 0

(* C9: every stored record has shot_counter = miss_counter + dead_counter.  *)
C9_CountersAddUp ==
    \A u \in DOMAIN db : db[u].shot_counter = db[u].miss_counter + db[u].dead_counter

\* a player with a recorded miss and a recorded death
C9_Witness ==
    \E u \in DOMAIN db : db[u].miss_counter >= 1 /\ db[u].dead_counter >= 1

(* C10: a register that finds the record already stored is a no-op for the  *)
(* fire: every handler that runs _db.add goes on to take the lock.          *)
C10_DuplicateRegisterBenign ==
    [][\A h \in Running :
            RollAdd(h) => handlers' = Become(h, [h EXCEPT !.pc = "acquire"])]_vars

(* C11: _db.miss or _db.dead called for an id that has no record (the       *)
(* record was erased after the handler registered or found it) does not     *)
(* complete silently: the step raises.  The claim names the exception,      *)
(* NotFound; that any exception at all is raised is already too much.       *)
C11_RecordOfAbsentFails ==
    [][\A h \in Running :
            ((RollDead(h) \/ RollMiss(h)) /\ ~DbFind(db, h.user)) => raised' # "none"]_vars

(* C12: on a hit of a player who has a record, a failure of the narration   *)
(* or of the mute leaves the death recorded: the step in which send_message *)
(* or mute_user_for_time raises has counted the death.                      *)
C12_DeathRecordedFirst ==
    [][\A h \in Running :
            (RollDead(h) /\ DbFind(db, h.user) /\ raised' = "TelegramError") =>
                /\ DbFind(db', h.user)
                /\ db'[h.user].dead_counter = db[h.user].dead_counter + 1]_vars

\* the fire of handler h is the one that returned last in its chat, and no fire is under way
LastFire(h) ==
    /\ ~barrel_lock
    /\ IF h.fate
       THEN LastWasHit(h.chat)
       ELSE trace[h.chat] # <<>> /\ trace[h.chat][Len(trace[h.chat])] = h.shots_remained

(* C13: the step in which _db.dead or _db.miss raises leaves every barrel   *)
(* and the lock as they were, writes nothing, and ends the handler: nothing *)
(* is rolled back and nothing is tried again.  When no other fire of the    *)
(* chat has come in between, the barrel is still as _shot left it: as many  *)
(* chambers as the miss reported, one of them loaded, or a fresh cylinder   *)
(* after a hit.                                                             *)
C13_NoRollBackNoRetry ==
    [][\A h \in Running :
            ((RollDead(h) \/ RollMiss(h)) /\ raised' = "PyMongoError") =>
                /\ chat_data' = chat_data
                /\ barrel_lock' = barrel_lock
                /\ db' = db
                /\ handlers' = handlers (-) SetToBag({h})
                /\ LastFire(h) =>
                      IF h.fate
                      THEN Fresh(chat_data'[h.chat])
                      ELSE /\ Len(chat_data'[h.chat]) = h.shots_remained
                           /\ Loaded(chat_data'[h.chat]) = 1]_vars

\* the store has just failed the record of a miss that left four chambers
C13_Witness ==
    /\ raised = "PyMongoError"
    /\ trace["c1"] = <<5, 4>>
    /\ ~barrel_lock
    /\ Len(chat_data["c1"]) = 4
    /\ handlers = EmptyBag

(* C14: a register for an id that already has a record changes nothing in   *)
(* the collection: the record keeps its shot, miss and dead counters, its   *)
(* total penalty and its first_shot.  A record gets its zeros when it is    *)
(* created and at no other time: from one step to the next a stored record  *)
(* keeps its first_shot and none of its counters goes down.                 *)
C14_RegisterTwice ==
    [][/\ \A h \in Running :
            /\ (RollAdd(h) /\ DbFind(db, h.user)) => db' = db
            /\ (RollAdd(h) /\ ~DbFind(db, h.user)) =>
                  /\ db'[h.user] = NewHussar(now)
                  /\ \A u \in DOMAIN db : db'[u] = db[u]
       /\ \A u \in DOMAIN db \cap DOMAIN db' :
            /\ db'[u].first_shot = db[u].first_shot
            /\ db'[u].shot_counter >= db[u].shot_counter
            /\ db'[u].miss_counter >= db[u].miss_counter
            /\ db'[u].dead_counter >= db[u].dead_counter
            /\ db'[u].total_time_in_club >= db[u].total_time_in_club]_vars

\* a second register of u1 has just been refused, after u1's first shot was recorded and
\* the clock has moved on
C14_Witness ==
    /\ raised = "DuplicateKeyError"
    /\ DOMAIN db = {"u1"}
    /\ db["u1"].shot_counter >= 1
    /\ db["u1"].first_shot < now

\* the counters and the total of a record are all zero
Zeroed(hussar) ==
    /\ hussar.shot_counter = 0
    /\ hussar.miss_counter = 0
    /\ hussar.dead_counter = 0
    /\ hussar.total_time_in_club = 0

(* C15: whatever a player's record holds, remove() followed by add() for    *)
(* the same id gives a record with shot_counter, miss_counter, dead_counter *)
(* and total_time_in_club all zero, and leaves the other records alone.     *)
(* In the handlers: /gdpr_me leaves the player without a record, and the    *)
(* register of a player without a record stores zeros.                      *)
C15_EraseThenRegister ==
    [][/\ \A u \in DOMAIN db :
            LET erased == DbRemove(db, u) IN
                /\ ~DbFind(erased, u)
                /\ ~DbAddRaises(erased, u)
                /\ Zeroed(DbAdd(erased, u, now)[u])
                /\ \A v \in DOMAIN db \ {u} : DbAdd(erased, u, now)[v] = db[v]
       /\ \A u \in Users : SatisfyGDPR(u) => ~DbFind(db', u)
       /\ \A h \in Running :
            (RollAdd(h) /\ ~DbFind(db, h.user)) => Zeroed(db'[h.user])]_vars

\* No call has failed, so the hit and the miss fired in c1 were recorded for u1, the only
\* player; the handler now waiting for the lock is the only one running and has
\* registered u1 at the present clock reading, so the earlier record was removed.
C15_Witness ==
    /\ faults = 0
    /\ members = {<<"c1", "u1">>}
    /\ hits["c1"] >= 1
    /\ trace["c1"] # <<>>
    /\ \E h \in Running : h.pc = "acquire"
    /\ DbFind(db, "u1")
    /\ db["u1"] = NewHussar(now)

\* total_time_in_club is within what dead_counter deaths can add up to
TotalInRange(hussar) ==
    /\ hussar.dead_counter = 0 => hussar.total_time_in_club = 0
    /\ hussar.total_time_in_club >= hussar.dead_counter * MUTE_MINUTES * 60
    /\ hussar.total_time_in_club <= hussar.dead_counter * MUTE_MINUTES * NUM_BULLETS * 60

(* C16: total_time_in_club is 60 times the penalty minutes of the deaths    *)
(* counted in dead_counter.  Every record is within range before and after  *)
(* every step: 0 with no death, else between dead_counter * 960 * 60 and    *)
(* dead_counter * 960 * 6 * 60.  A stored record's total changes only in a  *)
(* step that counts one more death, and then by 60 times the penalty of     *)
(* one hit; a recorded death adds 60 times its own penalty minutes; no step *)
(* of the miss branch changes any total.                                    *)
C16_TotalPenalty ==
    [][/\ \A u \in DOMAIN db : TotalInRange(db[u])
       /\ \A u \in DOMAIN db' : TotalInRange(db'[u])
       /\ \A u \in DOMAIN db \cap DOMAIN db' :
            db'[u].total_time_in_club # db[u].total_time_in_club =>
                /\ db'[u].dead_counter = db[u].dead_counter + 1
                /\ \E r \in 0..(NUM_BULLETS - 1) :
                      db'[u].total_time_in_club =
                          db[u].total_time_in_club + 60 * get_mute_minutes(r)
       /\ \A h \in Running :
            /\ (RollDead(h) /\ DbFind(db, h.user) /\ raised' = "none") =>
                  /\ db'[h.user].dead_counter = db[h.user].dead_counter + 1
                  /\ db'[h.user].total_time_in_club =
                        db[h.user].total_time_in_club + 60 * get_mute_minutes(h.shots_remained)
            /\ RollMiss(h) =>
                  \A u \in DOMAIN db :
                      /\ DbFind(db', u)
                      /\ db'[u].total_time_in_club = db[u].total_time_in_club
                      /\ db'[u].dead_counter = db[u].dead_counter]_vars

\* u1 has a miss and two deaths on record: one on the first chamber of a cylinder
\* (960 minutes) and one on the second (1920 minutes)
C16_Witness ==
    /\ DbFind(db, "u1")
    /\ db["u1"].miss_counter = 1
    /\ db["u1"].dead_counter = 2
    /\ db["u1"].total_time_in_club = 60 * (960 + 1920)

\* the lock is held exactly while a handler is between acquire() and release()
LockOnlyInShot == barrel_lock <=> InShotCount = 1

(* C17: the handler that holds barrel_lock runs no ledger operation and no  *)
(* transport call.  The lock is held exactly while one handler is between   *)
(* acquire() and release(); the steps taken there (get or reload, pop,      *)
(* reload on a hit, release) leave the collection alone and raise nothing;  *)
(* and find, add, dead, miss, send_message and the mute are steps of a      *)
(* handler that is not in that section.  (Other handlers' ledger calls may  *)
(* run while someone else is in the section.)                               *)
C17_NoIOUnderLock ==
    [][/\ LockOnlyInShot
       /\ LockOnlyInShot'
       /\ \A h \in Running :
            /\ (ShotLoad(h) \/ ShotPop(h) \/ ShotReloadOnHit(h) \/ ShotRelease(h)) =>
                  (barrel_lock /\ db' = db /\ raised' = "none" /\ pool' = pool)
            /\ (RollFind(h) \/ RollAdd(h) \/ RollDead(h) \/ RollMiss(h)) =>
                  /\ h.pc \notin InShot
                  /\ barrel_lock => \E h2 \in Running : h2 # h /\ h2.pc \in InShot]_vars

\* one handler is inside _shot while another, back from _shot, is about to record and narrate
C17_Witness ==
    \E h1 \in Running, h2 \in Running :
        h1.pc = "pop" /\ h2.pc = "report" /\ barrel_lock

\* a step of the roll() invocation h
RollStep(h) ==
    \/ RollFind(h) \/ RollAdd(h)
    \/ ShotAcquire(h) \/ ShotLoad(h) \/ ShotPop(h) \/ ShotReloadOnHit(h) \/ ShotRelease(h)
    \/ RollDead(h) \/ RollMiss(h)

(* C18: a step of a roll by player p in chat c leaves every other chat's    *)
(* barrel (and whether it has one) and every other player's record (and     *)
(* whether they have one) as they were.                                     *)
C18_FireFrame ==
    [][\A h \in Running :
            RollStep(h) =>
                /\ \A c \in Chats \ {h.chat} :
                      /\ c \in DOMAIN chat_data' <=> c \in DOMAIN chat_data
                      /\ c \in DOMAIN chat_data => chat_data'[c] = chat_data[c]
                /\ \A u \in Users \ {h.user} :
                      /\ DbFind(db', u) <=> DbFind(db, u)
                      /\ DbFind(db, u) => db'[u] = db[u]]_vars

\* u2 has fired in c2 and is about to record, while c1 holds a barrel that has been shot
\* from and u1 a record with a shot on it
C18_Witness ==
    /\ \E h \in Running : h.pc = "report" /\ h.chat = "c2" /\ h.user = "u2"
    /\ "c1" \in DOMAIN chat_data
    /\ Len(chat_data["c1"]) < NUM_BULLETS
    /\ DbFind(db, "u1")
    /\ db["u1"].shot_counter >= 1

\* a roll is blocked in barrel_lock.acquire()
Waiting == \E h \in Running : h.pc = "acquire"

(* C19: under a fair scheduler the lock, once taken, is released again, and *)
(* whenever a roll waits for the lock the handlers running then all get     *)
(* through: the transport delivers finitely many updates, so a state comes  *)
(* where no handler is left and the lock is free.                           *)
C19_LockReleased ==
    /\ barrel_lock ~> ~barrel_lock
    /\ Waiting ~> (handlers = EmptyBag /\ ~barrel_lock)

\* a roll waits for the lock while another handler is inside _shot
C19_Witness ==
    /\ barrel_lock
    /\ Waiting
    /\ \E h \in Running : h.pc = "pop"

(* C20: every miss returns 1 <= r <= 5 and every hit 0 <= r <= 5, so the    *)
(* face get_miss_string picks has index 6 - r - 1 in 0..4 and the call      *)
(* never raises IndexError; the hours it shows are 960 * (6 - (r - 1)) / 60 *)
(* and that is the penalty of the next fire in the chat when it is a hit.   *)
C20_MissString ==
    /\ raised # "IndexError"
    /\ \A h \in Running :
        /\ (h.pc \in {"reload", "release", "report"} /\ h.fate) =>
              (h.shots_remained >= 0 /\ h.shots_remained <= NUM_BULLETS - 1)
        /\ (h.pc \in {"reload", "release", "report"} /\ ~h.fate) =>
              /\ h.shots_remained >= 1 /\ h.shots_remained <= NUM_BULLETS - 1
              /\ NUM_BULLETS - h.shots_remained - 1 \in 0..(NUM_BULLETS - 2)
              /\ ~MissStringRaises(h.shots_remained)
              /\ MissStringHours(h.shots_remained) =
                    (MUTE_MINUTES * (NUM_BULLETS - (h.shots_remained - 1))) \div 60
        /\ (h.pc \in {"reload", "release"} /\ h.fate /\ trace[h.chat] # <<>>) =>
              get_mute_minutes(h.shots_remained) =
                  60 * MissStringHours(trace[h.chat][Len(trace[h.chat])])

\* the fire that follows a miss with three chambers left is a hit
C20_Witness ==
    \E h \in Running : h.pc = "release" /\ h.fate /\ trace[h.chat] = <<5, 4, 3>>

====
